---------------------------- MODULE Spec2Model ----------------------------
(***************************************************************************)
(* tokio-postgres-rustls: the adapter between tokio_postgres' pluggable    *)
(* TLS interface and rustls (src/src/lib.rs).                              *)
(*                                                                         *)
(*   MakeRustlsConnect  the connector factory (an Arc<ClientConfig>)       *)
(*   RustlsConnect      the one-shot negotiation handle                    *)
(*   RustlsStream       the wrapper around tokio_rustls' TlsStream         *)
(*                                                                         *)
(* The TLS engine, the transport and the peer are the environment: their   *)
(* outcomes (handshake result, readiness, I/O errors, bytes sent by the    *)
(* peer) are chosen nondeterministically.                                  *)
(***************************************************************************)
EXTENDS Integers, Sequences, FiniteSets, TLC

(***************************************************************************)
(* Bounds of the model.                                                    *)
(***************************************************************************)
MaxConns == 1

MaxFactories == 2

MaxHsPolls == 1

MaxBytes == 2

MaxCertLen == 2

MaxChain == 2

(***************************************************************************)
(* Option, Result and Poll values.                                         *)
(***************************************************************************)
None == [tag |-> "None"]

Some(x) == [tag |-> "Some", val |-> x]

Ok(x) == [tag |-> "Ok", val |-> x]

Err(e) == [tag |-> "Err", err |-> e]

Pending == [tag |-> "Pending"]

Ready(r) == [tag |-> "Ready", res |-> r]

(***************************************************************************)
(* Hostnames handed to make_tls_connect, as sequences of characters.       *)
(***************************************************************************)
Hostnames ==
    { <<"d", "b">>,                                \* "db"
      <<"1", ".", "2", ".", "3", ".", "4">>,       \* "1.2.3.4"
      <<>>,                                        \* ""
      <<"a", " ", "b">>,                           \* "a b"
      <<"1", ".", "2">> }                          \* "1.2"

Digits == <<"0", "1", "2", "3", "4", "5", "6", "7", "8", "9">>

IsDigit(c) == \E k \in 1..Len(Digits) : Digits[k] = c

DigitVal(c) == (CHOOSE k \in 1..Len(Digits) : Digits[k] = c) - 1

IsAlpha(c) ==
    c \in { "a", "b", "c", "d", "e", "f", "g", "h", "i", "j", "k", "l", "m",
            "n", "o", "p", "q", "r", "s", "t", "u", "v", "w", "x", "y", "z",
            "A", "B", "C", "D", "E", "F", "G", "H", "I", "J", "K", "L", "M",
            "N", "O", "P", "Q", "R", "S", "T", "U", "V", "W", "X", "Y", "Z",
            "_" }

(***************************************************************************)
(* ServerName::try_from(&str) of the TLS library, called at lib.rs:40.     *)
(* A DNS name is tried first: labels of letters, digits, '_' and inner     *)
(* '-', separated by single dots, the last label not all digits.  An IPv4  *)
(* literal is tried next.  The samples hold no ':' and stay far below the  *)
(* 63/253 length limits, so IPv6 literals and the limits do not arise.     *)
(***************************************************************************)
DnsStep(st, c) ==
    CASE st = "Err" -> "Err"
      [] c = "." ->
           IF st = "Subsequent" THEN "Next"
           ELSE IF st = "NumericOnly" THEN "NextAfterNumericOnly"
           ELSE "Err"
      [] IsDigit(c) ->
           IF st \in {"Start", "Next", "NextAfterNumericOnly", "NumericOnly"}
           THEN "NumericOnly"
           ELSE "Subsequent"
      [] IsAlpha(c) -> "Subsequent"
      [] c = "-" ->
           IF st \in {"Subsequent", "NumericOnly", "Hyphen"} THEN "Hyphen"
           ELSE "Err"
      [] OTHER -> "Err"

RECURSIVE DnsScan(_, _)
DnsScan(st, input) ==
    IF input = <<>> THEN st
    ELSE DnsScan(DnsStep(st, Head(input)), Tail(input))

DnsName_try_from(s) ==
    IF DnsScan("Start", s) \in {"Subsequent", "Next"}
    THEN Ok([kind |-> "DnsName", name |-> s])
    ELSE Err("InvalidDnsNameError")

RECURSIVE SplitDots(_, _, _)
SplitDots(input, cur, acc) ==
    IF input = <<>> THEN Append(acc, cur)
    ELSE IF Head(input) = "." THEN SplitDots(Tail(input), <<>>, Append(acc, cur))
    ELSE SplitDots(Tail(input), Append(cur, Head(input)), acc)

RECURSIVE DecimalVal(_, _)
DecimalVal(ds, acc) ==
    IF ds = <<>> THEN acc
    ELSE DecimalVal(Tail(ds), 10 * acc + DigitVal(Head(ds)))

IsOctet(p) ==
    /\ Len(p) \in 1..3
    /\ \A k \in 1..Len(p) : IsDigit(p[k])
    /\ (Len(p) > 1 => p[1] # "0")
    /\ DecimalVal(p, 0) <= 255

IpAddr_try_from(s) ==
    LET parts == SplitDots(s, <<>>, <<>>)
    IN  IF Len(parts) = 4 /\ \A k \in 1..4 : IsOctet(parts[k])
        THEN Ok([kind |-> "IpAddress",
                 octets |-> [k \in 1..4 |-> DecimalVal(parts[k], 0)]])
        ELSE Err("AddrParseError")

ServerName_try_from(s) ==
    LET dns == DnsName_try_from(s)
    IN  IF dns.tag = "Ok" THEN dns
        ELSE LET ip == IpAddr_try_from(s)
             IN  IF ip.tag = "Ok" THEN ip ELSE Err("InvalidDnsNameError")

(***************************************************************************)
(* The environment's choices.                                              *)
(***************************************************************************)
\* ClientConfig values: what matters here is the certificate verifier.
Configs == {"webpki", "accept_all"}

\* Errors a handshake resolves to (tokio_rustls hands them out as io::Error).
HsErrors ==
    { [kind |-> "InvalidData", cause |-> "InvalidCertificate"],
      [kind |-> "InvalidData", cause |-> "PeerIncompatible"],
      [kind |-> "UnexpectedEof", cause |-> "transport"] }

\* io::ErrorKind of a failing read, write, flush or shutdown.
IoErrors == {"BrokenPipe", "ConnectionReset"}

\* Plaintext bytes exchanged by the application and the peer.
IoBytes == {1, 2}

\* Bytes of a DER certificate.
CertBytes == {0, 1, 255}

SeqsUpTo(S, lo, hi) == UNION {[1..n -> S] : n \in lo..hi}

Min(a, b) == IF a <= b THEN a ELSE b

\* session.peer_certificates() once a handshake has completed.
SampleChains ==
    { None, Some(<< <<1>>, <<0, 255>> >>) }

(***************************************************************************)
(* State.                                                                  *)
(*   arcs       the Arc<ClientConfig> allocations, by address              *)
(*   factories  the MakeRustlsConnect values alive                         *)
(*   froot      per factory, the allocation its `new` made (history)       *)
(*   conns      per connection slot: the handle, the connect future, the   *)
(*              transport, the stream wrapper, and what the caller and     *)
(*              the TLS engine have observed                               *)
(***************************************************************************)
VARIABLES arcs, factories, froot, conns

vars == <<arcs, factories, froot, conns>>

Slots == 1..MaxConns

NoHandshake == [started |-> 0, sni |-> None, config |-> 0, out |-> None]

FreshTransport == [owner |-> "caller", touched |-> FALSE]

\* The caller's side of the stream: its last call with what it got back, and
\* the bytes it has had accepted for writing and has read so far.
NoIo == [last |-> None, written |-> <<>>, read |-> <<>>]

FreeSlot ==
    [ pc        |-> "free",
      given     |-> None,
      ret       |-> None,
      handle    |-> [tag |-> "Absent"],
      transport |-> FreshTransport,
      fut       |-> [tag |-> "NoFuture"],
      hs        |-> NoHandshake,
      out       |-> None,
      stream    |-> None,
      app       |-> NoIo,
      binding   |-> None ]

(***************************************************************************)
(* MakeRustlsConnect (lib.rs:18-48).                                       *)
(***************************************************************************)
\* MakeRustlsConnect::new: Arc::new allocates; the result is [ret, heap].
MakeRustlsConnect_new(config, heap) ==
    [ret |-> [config |-> Len(heap) + 1], heap |-> Append(heap, config)]

\* Variant: a clone that copies the configuration into an allocation of its own.
MakeRustlsConnect_clone_deep(self, heap) ==
    [ret |-> [config |-> Len(heap) + 1], heap |-> Append(heap, heap[self.config])]

\* #[derive(Clone)]: Arc::clone copies the pointer and allocates nothing.
MakeRustlsConnect_clone(self, heap) ==
    [ret |-> [config |-> self.config], heap |-> heap]

\* TlsConnector::from(Arc<ClientConfig>), the `.into()` of lib.rs:44.
TlsConnector_from(arc) == [inner |-> arc]

RustlsConnect(opt) == [tag |-> "RustlsConnect", opt |-> opt]

RustlsConnectData(hostname, connector) ==
    [hostname |-> hostname, connector |-> connector]

\* Variant: the parse error is handed to the caller (`?` in place of `.or`).
make_tls_connect_propagating(self, hostname) ==
    LET parsed == ServerName_try_from(hostname)
    IN  [ ret  |-> IF parsed.tag = "Ok"
                   THEN Ok(RustlsConnect(Some(RustlsConnectData(
                               parsed.val, TlsConnector_from(self.config)))))
                   ELSE Err("InvalidInput"),
          self |-> self ]

\* make_tls_connect(&mut self, hostname): [ret, self], the value returned and
\* the factory afterwards.  `parsed.map(..)` keeps an Err as it is and
\* `.or(Ok(..))` replaces it.
make_tls_connect(self, hostname) ==
    LET parsed == ServerName_try_from(hostname)
        mapped == IF parsed.tag = "Ok"
                  THEN Ok(RustlsConnect(Some(RustlsConnectData(
                              parsed.val, TlsConnector_from(self.config)))))
                  ELSE parsed
    IN  [ ret  |-> IF mapped.tag = "Ok" THEN mapped ELSE Ok(RustlsConnect(None)),
          self |-> self ]

(***************************************************************************)
(* RustlsConnect::connect (lib.rs:66-75) and the future it returns.        *)
(***************************************************************************)
\* TlsConnector::connect: a client session for `domain` is created and the
\* handshake future takes the transport; no I/O happens before a poll.
TlsConnector_connect(connector, domain, stream, hs) ==
    [ fut       |-> [tag |-> "Connect", polls |-> 0],
      transport |-> [stream EXCEPT !.owner = "future"],
      hs        |-> [started |-> hs.started + 1, sni |-> Some(domain),
                     config |-> connector.inner, out |-> None] ]

\* Variant: the absent identity is reported with another error kind.
connect_wrong_kind(self, stream, hs) ==
    IF self.opt.tag = "None"
    THEN [ fut       |-> [tag |-> "Ready", out |-> Err("InvalidData")],
           transport |-> [stream EXCEPT !.owner = "dropped"],
           hs        |-> hs ]
    ELSE LET c == self.opt.val
             h == TlsConnector_connect(c.connector, c.hostname, stream, hs)
         IN  [ fut       |-> [tag |-> "MapOk", inner |-> h.fut],
               transport |-> h.transport,
               hs        |-> h.hs ]

\* Variant: a handle without identity falls back to a default server name.
connect_fallback(self, stream, hs) ==
    LET c == IF self.opt.tag = "None"
             THEN RustlsConnectData(
                      [kind |-> "DnsName", name |-> <<"d", "b">>],
                      TlsConnector_from(1))
             ELSE self.opt.val
        h == TlsConnector_connect(c.connector, c.hostname, stream, hs)
    IN  [ fut       |-> [tag |-> "MapOk", inner |-> h.fut],
          transport |-> h.transport,
          hs        |-> h.hs ]

connect(self, stream, hs) ==
    IF self.opt.tag = "None"
    THEN [ fut       |-> [tag |-> "Ready", out |-> Err("InvalidInput")],
           transport |-> [stream EXCEPT !.owner = "dropped"],
           hs        |-> hs ]
    ELSE LET c == self.opt.val
             h == TlsConnector_connect(c.connector, c.hostname, stream, hs)
         IN  [ fut       |-> [tag |-> "MapOk", inner |-> h.fut],
               transport |-> h.transport,
               hs        |-> h.hs ]

\* tokio_rustls' TlsStream once the handshake is done: the session with the
\* peer's certificates, the plaintext buffered for the peer (wbuf), what the
\* peer has received (peer_recv) and sent (peer_sent, rbuf the unread rest),
\* and the calls made on it since the caller's last call (trace).
TlsStream(peer_certificates) ==
    [ session   |-> [peer_certificates |-> peer_certificates],
      state     |-> "Stream",
      wbuf      |-> <<>>,
      peer_recv |-> <<>>,
      peer_sent |-> <<>>,
      rbuf      |-> <<>>,
      trace     |-> <<>> ]

\* What the TLS engine may answer to one poll of its handshake future.
HsAnswers(fut, hs) ==
    {Pending : x \in {1} \cap (IF fut.polls < MaxHsPolls THEN {1} ELSE {})}
    \cup {Ready(Ok(c)) : c \in SampleChains}
    \cup {Ready(Err(e)) : e \in
            {x \in HsErrors : x.cause = "InvalidCertificate"
                                  => arcs[hs.config] = "webpki"}}

\* One poll of tokio_rustls' Connect future: a step of handshake I/O on the
\* transport, and the engine's answer.
Connect_poll(fut, transport, hs, answer) ==
    [ out       |-> IF answer.tag = "Pending" THEN Pending
                    ELSE IF answer.res.tag = "Err" THEN answer
                    ELSE Ready(Ok(TlsStream(answer.res.val))),
      fut       |-> IF answer.tag = "Pending"
                    THEN [fut EXCEPT !.polls = @ + 1]
                    ELSE [tag |-> "Done"],
      transport |-> [owner   |-> IF answer.tag = "Pending" THEN "future"
                                     ELSE IF answer.res.tag = "Ok" THEN "stream"
                                     ELSE "dropped",
                     touched |-> TRUE],
      hs        |-> IF answer.tag = "Pending" THEN hs
                    ELSE [hs EXCEPT !.out = Some(answer.res)] ]

RustlsStream(s) == [tag |-> "RustlsStream", inner |-> s]

\* Variant: the error of a failed handshake is replaced by a generic one.
map_ok_lossy(p) ==
    IF p.tag = "Ready" /\ p.res.tag = "Ok"
    THEN Ready(Ok(RustlsStream(p.res.val)))
    ELSE IF p.tag = "Ready"
    THEN Ready(Err([kind |-> "Other", cause |-> "handshake failed"]))
    ELSE p

\* `.map_ok(|s| RustlsStream(Box::pin(s)))` applied to one poll result.
map_ok(p) ==
    IF p.tag = "Ready" /\ p.res.tag = "Ok"
    THEN Ready(Ok(RustlsStream(p.res.val)))
    ELSE p

\* Variant: a failed handshake is started again on the same transport.
Future_poll_retry(fut, transport, hs, answer) ==
    IF fut.tag = "Ready"
    THEN [ out |-> Ready(fut.out), fut |-> [tag |-> "Done"],
           transport |-> transport, hs |-> hs ]
    ELSE LET r == Connect_poll(fut.inner, transport, hs, answer)
             failed == r.out.tag = "Ready" /\ r.out.res.tag = "Err"
                       /\ hs.started < 2
         IN  [ out       |-> IF failed THEN Pending ELSE map_ok(r.out),
               fut       |-> IF failed \/ r.out.tag = "Pending"
                             THEN [fut EXCEPT !.inner = [tag |-> "Connect",
                                                         polls |-> MaxHsPolls]]
                             ELSE [tag |-> "Done"],
               transport |-> IF failed
                             THEN [r.transport EXCEPT !.owner = "future"]
                             ELSE r.transport,
               hs        |-> IF failed
                             THEN [hs EXCEPT !.started = @ + 1]
                             ELSE r.hs ]

\* One poll of the boxed future connect returned.
Future_poll(fut, transport, hs, answer) ==
    IF fut.tag = "Ready"
    THEN [ out |-> Ready(fut.out), fut |-> [tag |-> "Done"],
           transport |-> transport, hs |-> hs ]
    ELSE LET r == Connect_poll(fut.inner, transport, hs, answer)
         IN  [ out       |-> map_ok(r.out),
               fut       |-> IF r.out.tag = "Pending"
                             THEN [fut EXCEPT !.inner = r.fut]
                             ELSE [tag |-> "Done"],
               transport |-> r.transport,
               hs        |-> r.hs ]

(***************************************************************************)
(* The established TlsStream, as the wrapper sees it.  Each operation      *)
(* takes the engine's answer and returns [ret, s]: the poll result and     *)
(* the stream afterwards (poll_read also `filled`, the bytes put into the  *)
(* caller's ReadBuf).                                                      *)
(***************************************************************************)
Unit == "()"

ReadAnswers(s, cap) ==
    {Pending}
    \cup {Ready(Ok(k)) : k \in (IF cap = 0 THEN {0}
                                ELSE 1..Min(cap, Len(s.rbuf)))}
    \cup {Ready(Err(e)) : e \in IoErrors}

WriteAnswers(s, buf) ==
    {Pending}
    \cup {Ready(Ok(n)) : n \in (IF buf = <<>> THEN {0} ELSE 1..Len(buf))}
    \cup {Ready(Err(e)) : e \in IoErrors}

UnitAnswers == {Pending, Ready(Ok(Unit))} \cup {Ready(Err(e)) : e \in IoErrors}

IsOk(p) == p.tag = "Ready" /\ p.res.tag = "Ok"

Logged(s, op, arg, ret, filled) ==
    [s EXCEPT !.trace = Append(@, [op |-> op, arg |-> arg, ret |-> ret,
                                   filled |-> filled])]

TlsStream_poll_read(s, cap, answer) ==
    LET k      == IF IsOk(answer) THEN answer.res.val ELSE 0
        filled == SubSeq(s.rbuf, 1, k)
        ret    == IF IsOk(answer) THEN Ready(Ok(Unit)) ELSE answer
    IN  [ ret    |-> ret,
          filled |-> filled,
          s      |-> Logged([s EXCEPT !.rbuf = SubSeq(@, k + 1, Len(@))],
                            "poll_read", cap, ret, filled) ]

TlsStream_poll_write(s, buf, answer) ==
    LET n == IF IsOk(answer) THEN answer.res.val ELSE 0
    IN  [ ret |-> answer,
          s   |-> Logged([s EXCEPT !.wbuf = @ \o SubSeq(buf, 1, n)],
                         "poll_write", buf, answer, <<>>) ]

TlsStream_poll_flush(s, answer) ==
    [ ret |-> answer,
      s   |-> Logged(IF IsOk(answer)
                     THEN [s EXCEPT !.peer_recv = @ \o s.wbuf, !.wbuf = <<>>]
                     ELSE s,
                     "poll_flush", Unit, answer, <<>>) ]

TlsStream_poll_shutdown(s, answer) ==
    [ ret |-> answer,
      s   |-> Logged(IF IsOk(answer)
                     THEN [s EXCEPT !.peer_recv = @ \o s.wbuf, !.wbuf = <<>>,
                                    !.state = "WriteShutdown"]
                     ELSE s,
                     "poll_shutdown", Unit, answer, <<>>) ]

(***************************************************************************)
(* RustlsStream (lib.rs:78-128).                                           *)
(***************************************************************************)
ChannelBinding_none == [tag |-> "none"]

ChannelBinding_tls_server_end_point(d) ==
    [tag |-> "tls-server-end-point", data |-> d]

\* ring's digest::digest(&SHA256, data), kept abstract: a deterministic
\* function of the bytes, in order, that is neither the identity nor constant.
RECURSIVE DigestFold(_, _)
DigestFold(h, data) ==
    IF data = <<>> THEN h
    ELSE DigestFold((h * 33 + Head(data) + 1) % 65521, Tail(data))

digest_SHA256(data) == [algorithm |-> "SHA256", value |-> DigestFold(5381, data)]

\* Variant: the digest is taken over the whole chain.
channel_binding_whole_chain(self) ==
    LET certs == self.inner.session.peer_certificates
        RECURSIVE Concat(_)
        Concat(ch) == IF ch = <<>> THEN <<>> ELSE Head(ch) \o Concat(Tail(ch))
    IN  IF certs.tag = "Some" /\ certs.val # <<>>
        THEN ChannelBinding_tls_server_end_point(digest_SHA256(Concat(certs.val)))
        ELSE ChannelBinding_none

\* Variant: the emptiness guard is missing and an empty chain is hashed.
channel_binding_unguarded(self) ==
    LET certs == self.inner.session.peer_certificates
    IN  IF certs.tag = "Some"
        THEN ChannelBinding_tls_server_end_point(
                 digest_SHA256(IF certs.val = <<>> THEN <<>> ELSE certs.val[1]))
        ELSE ChannelBinding_none

channel_binding(self) ==
    LET certs == self.inner.session.peer_certificates
    IN  IF certs.tag = "Some" /\ certs.val # <<>>
        THEN ChannelBinding_tls_server_end_point(digest_SHA256(certs.val[1]))
        ELSE ChannelBinding_none

RustlsStream_poll_read(self, cap, answer) ==
    LET r == TlsStream_poll_read(self.inner, cap, answer)
    IN  [ret |-> r.ret, filled |-> r.filled, self |-> [self EXCEPT !.inner = r.s]]

\* Variant: the buffer is handed on without its first byte.
RustlsStream_poll_write_shifted(self, buf, answer) ==
    LET r == IF buf = <<>>
             THEN TlsStream_poll_write(self.inner, buf, answer)
             ELSE TlsStream_poll_write(self.inner, Tail(buf),
                      IF IsOk(answer) /\ answer.res.val = Len(buf)
                      THEN Ready(Ok(Len(buf) - 1)) ELSE answer)
    IN  [ret |-> r.ret, self |-> [self EXCEPT !.inner = r.s]]

RustlsStream_poll_write(self, buf, answer) ==
    LET r == TlsStream_poll_write(self.inner, buf, answer)
    IN  [ret |-> r.ret, self |-> [self EXCEPT !.inner = r.s]]

\* Variant: a failed flush is reported as done.
RustlsStream_poll_flush_swallowing(self, answer) ==
    LET r == TlsStream_poll_flush(self.inner, answer)
    IN  [ ret  |-> IF r.ret.tag = "Ready" /\ r.ret.res.tag = "Err"
                   THEN Ready(Ok(Unit)) ELSE r.ret,
          self |-> [self EXCEPT !.inner = r.s] ]

RustlsStream_poll_flush(self, answer) ==
    LET r == TlsStream_poll_flush(self.inner, answer)
    IN  [ret |-> r.ret, self |-> [self EXCEPT !.inner = r.s]]

RustlsStream_poll_shutdown(self, answer) ==
    LET r == TlsStream_poll_shutdown(self.inner, answer)
    IN  [ret |-> r.ret, self |-> [self EXCEPT !.inner = r.s]]

(***************************************************************************)
(* Actions.                                                                *)
(***************************************************************************)
Init ==
    \E cfg \in Configs :
        LET n == MakeRustlsConnect_new(cfg, <<>>)
        IN  /\ arcs = n.heap
            /\ factories = <<n.ret>>
            /\ froot = <<n.ret.config>>
            /\ conns = [i \in Slots |-> FreeSlot]

New(cfg) ==
    /\ Len(factories) < MaxFactories
    /\ LET n == MakeRustlsConnect_new(cfg, arcs)
       IN  /\ arcs' = n.heap
           /\ factories' = Append(factories, n.ret)
           /\ froot' = Append(froot, n.ret.config)
    /\ UNCHANGED conns

Clone(f) ==
    /\ Len(factories) < MaxFactories
    /\ LET n == MakeRustlsConnect_clone(factories[f], arcs)
       IN  /\ arcs' = n.heap
           /\ factories' = Append(factories, n.ret)
           /\ froot' = Append(froot, froot[f])
    /\ UNCHANGED conns

MakeTlsConnect(i, f, hostname) ==
    /\ conns[i].pc = "free"
    /\ LET r == make_tls_connect(factories[f], hostname)
       IN  /\ conns' = [conns EXCEPT ![i] =
                  [FreeSlot EXCEPT
                      !.pc = IF r.ret.tag = "Ok" THEN "handle" ELSE "failed",
                      !.given = Some([hostname |-> hostname, factory |-> f]),
                      !.ret = Some(r.ret),
                      !.handle = IF r.ret.tag = "Ok" THEN r.ret.val ELSE @]]
           /\ factories' = [factories EXCEPT ![f] = r.self]
    /\ UNCHANGED <<arcs, froot>>

Connect(i) ==
    /\ conns[i].pc = "handle"
    /\ LET c == conns[i]
           r == connect(c.handle, c.transport, c.hs)
       IN  conns' = [conns EXCEPT ![i] =
               [c EXCEPT !.pc = "connecting",
                         !.handle = [tag |-> "Moved"],
                         !.fut = r.fut,
                         !.transport = r.transport,
                         !.hs = r.hs]]
    /\ UNCHANGED <<arcs, factories, froot>>

Poll(i) ==
    /\ conns[i].pc = "connecting"
    /\ LET c == conns[i]
       IN  \E answer \in (IF c.fut.tag = "MapOk"
                          THEN HsAnswers(c.fut.inner, c.hs) ELSE {Pending}) :
              LET r == Future_poll(c.fut, c.transport, c.hs, answer)
              IN  conns' = [conns EXCEPT ![i] =
                      [c EXCEPT
                          !.pc = IF r.out.tag = "Ready" THEN "resolved" ELSE @,
                          !.fut = r.fut,
                          !.transport = r.transport,
                          !.hs = r.hs,
                          !.out = Some(r.out),
                          !.stream = IF r.out.tag = "Ready" /\ r.out.res.tag = "Ok"
                                     THEN Some(r.out.res.val) ELSE @]]
    /\ UNCHANGED <<arcs, factories, froot>>

\* The caller drops whatever the slot holds: an unused handle, a future in
\* flight, a failed result or an established stream.
Drop(i) ==
    /\ conns[i].pc # "free"
    /\ conns' = [conns EXCEPT ![i] = FreeSlot]
    /\ UNCHANGED <<arcs, factories, froot>>

\* Factories, handles and connect futures, over every slot.  The use of an
\* established stream is followed for one connection in SpecStream, and
\* channel_binding over every certificate chain in SpecBinding.
Next ==
    \/ \E cfg \in Configs : New(cfg)
    \/ \E f \in 1..Len(factories) : Clone(f)
    \/ \E i \in Slots, f \in 1..Len(factories), h \in Hostnames :
          MakeTlsConnect(i, f, h)
    \/ \E i \in Slots : Connect(i)
    \/ \E i \in Slots : Poll(i)
    \/ \E i \in Slots : Drop(i)

Spec == Init /\ [][Next]_vars

(***************************************************************************)
(* The caller's use of an established stream, and the peer.                *)
(***************************************************************************)
HasStream(i) == conns[i].stream.tag = "Some"

\* Plaintext bytes a connection has exchanged so far, both directions.
Exchanged(i) ==
    Len(conns[i].app.written) + Len(conns[i].stream.val.inner.peer_sent)

\* The wrapper as the caller finds it before a call: nothing traced yet.
Wrapper(i) == [conns[i].stream.val EXCEPT !.inner.trace = <<>>]

PollRead(i, cap) ==
    /\ HasStream(i)
    /\ \E answer \in ReadAnswers(Wrapper(i).inner, cap) :
          LET r == RustlsStream_poll_read(Wrapper(i), cap, answer)
          IN  conns' = [conns EXCEPT ![i].stream = Some(r.self),
                  ![i].app = [last    |-> Some([op |-> "poll_read", arg |-> cap,
                                                ret |-> r.ret, filled |-> r.filled]),
                              written |-> @.written,
                              read    |-> @.read \o r.filled]]
    /\ UNCHANGED <<arcs, factories, froot>>

PollWrite(i, buf) ==
    /\ HasStream(i)
    /\ Wrapper(i).inner.state = "Stream"
    /\ Exchanged(i) + Len(buf) <= MaxBytes
    /\ \E answer \in WriteAnswers(Wrapper(i).inner, buf) :
          LET r == RustlsStream_poll_write(Wrapper(i), buf, answer)
          IN  conns' = [conns EXCEPT ![i].stream = Some(r.self),
                  ![i].app = [last    |-> Some([op |-> "poll_write", arg |-> buf,
                                                ret |-> r.ret, filled |-> <<>>]),
                              written |-> IF IsOk(r.ret)
                                          THEN @.written \o SubSeq(buf, 1, r.ret.res.val)
                                          ELSE @.written,
                              read    |-> @.read]]
    /\ UNCHANGED <<arcs, factories, froot>>

PollFlush(i) ==
    /\ HasStream(i)
    /\ \E answer \in UnitAnswers :
          LET r == RustlsStream_poll_flush(Wrapper(i), answer)
          IN  conns' = [conns EXCEPT ![i].stream = Some(r.self),
                  ![i].app.last = Some([op |-> "poll_flush", arg |-> Unit,
                                        ret |-> r.ret, filled |-> <<>>])]
    /\ UNCHANGED <<arcs, factories, froot>>

PollShutdown(i) ==
    /\ HasStream(i)
    /\ \E answer \in UnitAnswers :
          LET r == RustlsStream_poll_shutdown(Wrapper(i), answer)
          IN  conns' = [conns EXCEPT ![i].stream = Some(r.self),
                  ![i].app.last = Some([op |-> "poll_shutdown", arg |-> Unit,
                                        ret |-> r.ret, filled |-> <<>>])]
    /\ UNCHANGED <<arcs, factories, froot>>

\* The peer sends one more plaintext byte.
PeerSend(i, b) ==
    /\ HasStream(i)
    /\ Exchanged(i) < MaxBytes
    /\ conns' = [conns EXCEPT ![i].stream.val.inner.peer_sent = Append(@, b),
                              ![i].stream.val.inner.rbuf = Append(@, b)]
    /\ UNCHANGED <<arcs, factories, froot>>

ChannelBinding(i) ==
    /\ HasStream(i)
    /\ conns' = [conns EXCEPT ![i].binding = Some(channel_binding(conns[i].stream.val))]
    /\ UNCHANGED <<arcs, factories, froot>>

\* One connection, from its handle through the handshake to the use of the
\* stream.
NextStream ==
    \/ \E h \in Hostnames : MakeTlsConnect(1, 1, h)
    \/ Connect(1)
    \/ Poll(1)
    \/ \E cap \in 0..MaxBytes : PollRead(1, cap)
    \/ \E buf \in SeqsUpTo(IoBytes, 0, MaxBytes) : PollWrite(1, buf)
    \/ PollFlush(1)
    \/ PollShutdown(1)
    \/ \E b \in IoBytes : PeerSend(1, b)
    \/ Drop(1)

SpecStream == Init /\ [][NextStream]_vars

\* channel_binding on the stream of a completed handshake, for every chain
\* of peer certificates within the bounds.
AllChains ==
    {None} \cup {Some(ch) : ch \in SeqsUpTo(SeqsUpTo(CertBytes, 1, MaxCertLen),
                                            0, MaxChain)}

Established(factory, hostname, certs) ==
    LET m == make_tls_connect(factory, hostname).ret
        k == connect(m.val, FreshTransport, NoHandshake)
        r == Future_poll(k.fut, k.transport, k.hs, Ready(Ok(certs)))
    IN  [FreeSlot EXCEPT
            !.pc = "resolved",
            !.given = Some([hostname |-> hostname, factory |-> 1]),
            !.ret = Some(m),
            !.handle = [tag |-> "Moved"],
            !.fut = r.fut,
            !.transport = r.transport,
            !.hs = r.hs,
            !.out = Some(r.out),
            !.stream = Some(r.out.res.val)]

InitBinding ==
    \E certs \in AllChains :
        LET n == MakeRustlsConnect_new("accept_all", <<>>)
        IN  /\ arcs = n.heap
            /\ factories = <<n.ret>>
            /\ froot = <<n.ret.config>>
            /\ conns = [i \in Slots |->
                          IF i = 1 THEN Established(n.ret, <<"d", "b">>, certs)
                          ELSE FreeSlot]

NextBinding == \E i \in Slots : ChannelBinding(i)

SpecBinding == InitBinding /\ [][NextBinding]_vars

(***************************************************************************)
(* Properties.                                                             *)
(***************************************************************************)
\* The slot's make_tls_connect returned a handle, and what it holds.
Made(c) == c.ret.tag = "Some" /\ c.ret.val.tag = "Ok"

MadeWithIdentity(c) == Made(c) /\ c.ret.val.val.opt.tag = "Some"

MadeWithoutIdentity(c) == Made(c) /\ c.ret.val.val.opt.tag = "None"

Parsed(c) == ServerName_try_from(c.given.val.hostname)

Connected(c) == c.pc \in {"connecting", "resolved"}

\* C1: make_tls_connect returns Ok for every hostname: the parsed identity
\* and a connector when the hostname parses, no identity when it does not.
C1_MakeNeverFails ==
    \A i \in Slots :
        LET c == conns[i]
        IN  c.ret.tag = "Some" =>
              /\ c.ret.val.tag = "Ok"
              /\ c.ret.val.val.tag = "RustlsConnect"
              /\ Parsed(c).tag = "Ok" =>
                   /\ c.ret.val.val.opt.tag = "Some"
                   /\ c.ret.val.val.opt.val.hostname = Parsed(c).val
                   /\ c.ret.val.val.opt.val.connector.inner \in 1..Len(arcs)
              /\ Parsed(c).tag = "Err" => c.ret.val.val.opt = None

C1_Witness ==
    \E i \in Slots :
        /\ conns[i].ret.tag = "Some"
        /\ Parsed(conns[i]).tag = "Err"
        /\ conns[i].ret.val = Ok(RustlsConnect(None))
        /\ conns[i].given.val.hostname = <<"1", ".", "2">>

\* C2: connect on a handle without identity resolves at its first poll to
\* Err(InvalidInput); the transport sees no I/O and no handshake is started.
C2_NoIdentityFailsWithoutIo ==
    \A i \in Slots :
        LET c == conns[i]
        IN  (MadeWithoutIdentity(c) /\ Connected(c)) =>
              /\ ~c.transport.touched
              /\ c.hs.started = 0
              /\ c.out # Some(Pending)
              /\ c.stream = None
              /\ c.pc = "connecting" => c.out = None
              /\ c.pc = "resolved" => c.out = Some(Ready(Err("InvalidInput")))

C2_Witness ==
    \E i \in Slots :
        /\ MadeWithoutIdentity(conns[i])
        /\ conns[i].pc = "resolved"
        /\ conns[i].out = Some(Ready(Err("InvalidInput")))
        /\ conns[i].transport = [owner |-> "dropped", touched |-> FALSE]

\* C3: a failed handshake resolves connect to the handshake's own error and
\* to no stream; a RustlsStream exists only after a handshake that succeeded.
C3_FailedHandshakeYieldsNoStream ==
    \A i \in Slots :
        LET c == conns[i]
        IN  /\ (c.hs.out.tag = "Some" /\ c.hs.out.val.tag = "Err") =>
                 /\ c.out = Some(Ready(Err(c.hs.out.val.err)))
                 /\ c.stream = None
            /\ c.stream # None =>
                 /\ c.hs.out.tag = "Some"
                 /\ c.hs.out.val.tag = "Ok"
                 /\ c.stream.val.tag = "RustlsStream"
                 /\ c.out = Some(Ready(Ok(c.stream.val)))

C3_Witness ==
    \E i \in Slots :
        /\ conns[i].pc = "resolved"
        /\ conns[i].hs.out = Some(Err([kind |-> "InvalidData",
                                       cause |-> "InvalidCertificate"]))
        /\ conns[i].out.val.res.tag = "Err"
        /\ conns[i].stream = None

\* C4: connect consumes the handle and starts at most one handshake; the
\* future is pending while that handshake is, resolves when and as it does,
\* and a failure is not followed by another attempt.
C4_OneHandshakePerHandle ==
    \A i \in Slots :
        LET c == conns[i]
        IN  /\ c.hs.started <= 1
            /\ Connected(c) => c.handle = [tag |-> "Moved"]
            /\ (MadeWithIdentity(c) /\ Connected(c)) =>
                 /\ c.hs.started = 1
                 /\ c.hs.out = None <=> c.pc = "connecting"
                 /\ (c.hs.out = None /\ c.out # None) => c.out = Some(Pending)
                 /\ c.pc = "resolved" =>
                      /\ c.out.val.tag = "Ready"
                      /\ c.out.val.res.tag = c.hs.out.val.tag
                      /\ c.fut = [tag |-> "Done"]

C4_Witness ==
    \E i \in Slots :
        /\ conns[i].pc = "resolved"
        /\ conns[i].hs.started = 1
        /\ conns[i].hs.out.val.tag = "Err"
        /\ conns[i].transport.touched

\* C9: a handle keeps what make stored in it: the identity parsed from the
\* hostname given to make is the one the handshake uses, and a handle
\* without identity never gets one nor a handshake.
C9_HandleFixedAtCreation ==
    \A i \in Slots :
        LET c == conns[i]
        IN  /\ (Made(c) /\ c.pc = "handle") => c.handle = c.ret.val.val
            /\ c.hs.started > 0 =>
                 /\ MadeWithIdentity(c)
                 /\ Parsed(c).tag = "Ok"
                 /\ c.hs.sni = Some(Parsed(c).val)
                 /\ c.hs.sni = Some(c.ret.val.val.opt.val.hostname)
            /\ MadeWithoutIdentity(c) =>
                 /\ c.hs = NoHandshake
                 /\ c.pc = "handle" => c.handle.opt = None
                 /\ c.pc = "resolved" => c.out.val.res.tag = "Err"

C9_Witness ==
    \E i \in Slots :
        /\ MadeWithIdentity(conns[i])
        /\ conns[i].pc = "resolved"
        /\ conns[i].hs.sni.val = [kind |-> "IpAddress", octets |-> <<1, 2, 3, 4>>]
        /\ conns[i].given.val.hostname = <<"1", ".", "2", ".", "3", ".", "4">>

\* C10: every factory, original or clone, and through every make, refers to
\* the allocation its `new` made; each allocation stems from a `new`; and
\* every handle with an identity is bound to its factory's allocation.
C10_SharedConfiguration ==
    /\ Len(froot) = Len(factories)
    /\ \A f \in 1..Len(factories) : factories[f].config = froot[f]
    /\ {froot[f] : f \in 1..Len(froot)} = 1..Len(arcs)
    /\ \A i \in Slots :
          LET c == conns[i]
          IN  /\ (c.pc = "handle" /\ c.handle.opt.tag = "Some") =>
                   c.handle.opt.val.connector.inner = froot[c.given.val.factory]
              /\ c.hs.started > 0 => c.hs.config = froot[c.given.val.factory]

C10_Witness ==
    /\ Len(factories) = 2
    /\ froot[2] = froot[1]
    /\ \E i \in Slots :
          /\ conns[i].pc = "handle"
          /\ conns[i].given.val.factory = 2
          /\ conns[i].handle.opt.tag = "Some"
          /\ conns[i].handle.opt.val.connector.inner = 1

\* C5: a valid hostname and a completed handshake yield a stream wrapper; on
\* it the bytes the caller has had accepted are, in order, the bytes the peer
\* has received followed by those still buffered (none after a flush or
\* shutdown that succeeded), and the bytes the caller has read followed by
\* those not yet read are, in order, the bytes the peer sent.
C5_RoundTrip ==
    \A i \in Slots :
        LET c == conns[i]
        IN  /\ (MadeWithIdentity(c) /\ c.hs.out.tag = "Some"
                                    /\ c.hs.out.val.tag = "Ok") =>
                 /\ c.stream.tag = "Some"
                 /\ c.stream.val.tag = "RustlsStream"
            /\ c.stream.tag = "Some" =>
                 /\ c.app.written = c.stream.val.inner.peer_recv
                                        \o c.stream.val.inner.wbuf
                 /\ c.stream.val.inner.peer_sent = c.app.read
                                        \o c.stream.val.inner.rbuf
                 /\ (/\ c.app.last.tag = "Some"
                     /\ c.app.last.val.op \in {"poll_flush", "poll_shutdown"}
                     /\ IsOk(c.app.last.val.ret)) =>
                       c.stream.val.inner.peer_recv = c.app.written

C5_Witness ==
    \E i \in Slots :
        /\ conns[i].stream.tag = "Some"
        /\ conns[i].given.val.hostname = <<"d", "b">>
        /\ conns[i].app.written = <<2, 1>>
        /\ conns[i].stream.val.inner.peer_recv = <<2, 1>>
        /\ conns[i].app.last.val.op = "poll_flush"

\* C6: with a peer certificate chain of at least one certificate,
\* channel_binding is the tls-server-end-point binding of the SHA-256 digest
\* of the first certificate's bytes, whatever certificates follow it.
C6_BindingIsLeafDigest ==
    \A i \in Slots :
        LET c == conns[i]
        IN  (/\ c.binding.tag = "Some"
             /\ c.stream.val.inner.session.peer_certificates.tag = "Some"
             /\ c.stream.val.inner.session.peer_certificates.val # <<>>) =>
              LET leaf == Head(c.stream.val.inner.session.peer_certificates.val)
              IN  /\ c.binding.val.tag = "tls-server-end-point"
                  /\ c.binding.val.data = digest_SHA256(leaf)
                  /\ c.binding.val =
                       channel_binding(RustlsStream(TlsStream(Some(<<leaf>>))))

C6_Witness ==
    \E i \in Slots :
        /\ conns[i].stream.tag = "Some"
        /\ conns[i].stream.val.inner.session.peer_certificates
              = Some(<< <<0, 255>>, <<1>> >>)
        /\ conns[i].binding = Some(ChannelBinding_tls_server_end_point(
                                       digest_SHA256(<<0, 255>>)))

\* C7: with no peer certificate chain, or with an empty one, channel_binding
\* is the no-binding value and no digest.
C7_NoCertificateNoBinding ==
    \A i \in Slots :
        LET c == conns[i]
        IN  (/\ c.binding.tag = "Some"
             /\ \/ c.stream.val.inner.session.peer_certificates = None
                \/ c.stream.val.inner.session.peer_certificates = Some(<<>>)) =>
              /\ c.binding.val.tag # "tls-server-end-point"
              /\ c.binding.val = ChannelBinding_none

C7_Witness ==
    \E i \in Slots :
        /\ conns[i].stream.tag = "Some"
        /\ conns[i].stream.val.inner.session.peer_certificates = Some(<<>>)
        /\ conns[i].binding = Some(ChannelBinding_none)

\* C8: a call of poll_read, poll_write, poll_flush or poll_shutdown on the
\* wrapper makes exactly one call of the same operation on the TlsStream,
\* with the same argument, and returns what that call returned.
C8_WrapperDelegates ==
    \A i \in Slots :
        LET c == conns[i]
        IN  c.app.last.tag = "Some" =>
              /\ c.stream.tag = "Some"
              /\ Len(c.stream.val.inner.trace) = 1
              /\ c.stream.val.inner.trace[1].op = c.app.last.val.op
              /\ c.stream.val.inner.trace[1].arg = c.app.last.val.arg
              /\ c.stream.val.inner.trace[1].ret = c.app.last.val.ret
              /\ c.stream.val.inner.trace[1].filled = c.app.last.val.filled

C8_Witness ==
    \E i \in Slots :
        /\ conns[i].app.last.tag = "Some"
        /\ conns[i].app.last.val.op = "poll_flush"
        /\ conns[i].app.last.val.ret = Ready(Err("ConnectionReset"))
        /\ conns[i].stream.val.inner.trace[1].ret = Ready(Err("ConnectionReset"))

=============================================================================
